---------------------------- MODULE Spec2Model ----------------------------
(***************************************************************************)
(* A model of stlab::copy_on_write<T> (include/stlab/copy_on_write.hpp).   *)
(*                                                                         *)
(* A Cell is the heap object `model` (an atomic count and a value); a      *)
(* Handle is a copy_on_write object (the pointer _self).  Two              *)
(* specifications share the state:                                         *)
(*   Spec    one thread of control, one action per public operation;       *)
(*   SpecMT  several threads, each operation split at its atomic steps.    *)
(***************************************************************************)
EXTENDS Integers, FiniteSets, Sequences, TLC

(***************************************************************************)
(* Bounds of the model.                                                    *)
(***************************************************************************)
NumHandles == 2     \* Spec: named copy_on_write objects of the program
MaxVal     == 1     \* the wrapped T is an integer in 0..MaxVal
NumThreads == 2     \* SpecMT: threads
MaxOps     == 2     \* SpecMT: operations the threads invoke, all together

NULL         == 0
DefaultValue == 0   \* T{} of a value-initialised integer

\* SpecMT gives every thread a handle, and the first thread one more
NumSlots    == IF NumHandles > NumThreads + 1 THEN NumHandles ELSE NumThreads + 1

Cells       == 1..NumSlots      \* heap addresses `new model` can return
SeqCells    == 1..NumHandles    \* those the handles of one thread can fill
Values      == 0..MaxVal
UserHandles == 1..NumHandles
Threads     == 1..NumThreads
MTHandles   == 1..(NumThreads + 1)
MainThread  == CHOOSE t \in Threads : \A u \in Threads : t <= u

\* The temporaries an operation of thread t materialises: TA(t) is the
\* prvalue copy_on_write(...) on the right of `*this = ...`, TB(t) is `tmp`
\* inside operator=(copy_on_write&&).
TA(t) == NumSlots + 2 * (t - 1) + 1
TB(t) == NumSlots + 2 * (t - 1) + 2
TempHandles == {TA(t) : t \in Threads} \cup {TB(t) : t \in Threads}
AllHandles  == (1..NumSlots) \cup TempHandles

VARIABLES
    self,       \* self[h]: the Cell h._self points to, or NULL
    alive,      \* alive[h]: h is within its lifetime
    count,      \* count[c]: model::_count of Cell c
    value,      \* value[c]: model::_value of Cell c
    allocated,  \* allocated[c]: c is a live heap object
    fault,      \* "ok", or the assert that aborted / the undefined behaviour hit
    ndebug,     \* the build: TRUE when assert() is compiled out
    wref,       \* Spec: the Cell the T& returned by write() refers to, or NULL
    last,       \* Spec: the operation completed last, with what it started from
    pc,         \* SpecMT: pc[t], the step thread t is at
    loc,        \* SpecMT: loc[t], the locals of the operation of thread t
    nops,       \* SpecMT: the number of operations invoked
    seq         \* SpecSeq: the handles that have called write(), the Cells made

heap == <<self, alive, count, value, allocated, fault>>
vars == <<self, alive, count, value, allocated, fault, ndebug, wref, last, pc, loc, nops,
          seq>>

(***************************************************************************)
(* The heap as one value, so that an operation is the composition of the   *)
(* calls it makes.                                                         *)
(***************************************************************************)
St == [self |-> self, alive |-> alive, count |-> count, value |-> value,
       allocated |-> allocated, fault |-> fault]

Apply(S) ==
    /\ self' = S.self
    /\ alive' = S.alive
    /\ count' = S.count
    /\ value' = S.value
    /\ allocated' = S.allocated
    /\ fault' = S.fault

Ok(S) == S.fault = "ok"

\* assert(cond && msg): aborts a debug build, is no code in an NDEBUG build.
Abort(S, msg) == [S EXCEPT !.fault = msg]
UB(S, what)   == [S EXCEPT !.fault = what]

FreeCells(S) == {c \in Cells : ~S.allocated[c]}

\* new model(v): a fresh Cell, _count{1}
New(S, c, v) ==
    [S EXCEPT !.allocated[c] = TRUE, !.count[c] = 1, !.value[c] = v]

\* delete _self
Delete(S, c) ==
    [S EXCEPT !.allocated[c] = FALSE, !.count[c] = 0, !.value[c] = DefaultValue]

\* a copy that takes no count
FetchAddNone(S, c) == S

\* _count.fetch_add(1)
FetchAdd(S, c) == [S EXCEPT !.count[c] = @ + 1]

\* _count.fetch_sub(1); the value before is S.count[c]
FetchSub(S, c) == [S EXCEPT !.count[c] = @ - 1]

\* the end of a handle's lifetime
EndLife(S, h) == [S EXCEPT !.alive[h] = FALSE, !.self[h] = NULL]

\* a test satisfied by every live Cell, and one satisfied by a pair of holders
IsOneAtLeast(n) == n >= 1
IsOneOrTwo(n) == n <= 2

\* a test no live Cell satisfies
IsNone(n) == n = 0

\* unique(): _count.load() == 1
IsOne(n) == n = 1
Unique(S, h) == IsOne(S.count[S.self[h]])

\* read()
Read(S, h) == S.value[S.self[h]]

\* a read that takes a count on the Cell
ReadTakesCount(S, h) ==
    IF Ok(S) /\ S.self[h] # NULL THEN FetchAdd(S, S.self[h]) ELSE S

\* the call of read(): assert(_self); return _self->_value;
ReadCall(S, h) ==
    IF ~Ok(S) THEN S
    ELSE IF S.self[h] = NULL
    THEN IF ndebug THEN UB(S, "ub: null dereference")
         ELSE Abort(S, "assert: using a moved copy_on_write object")
    ELSE IF ~S.allocated[S.self[h]] THEN UB(S, "ub: use after free")
    ELSE S

\* read(), operator const element_type&(), operator*(), operator->(): the
\* last three return read() (operator-> its address)
ReadForms == {"read", "conv", "deref", "arrow"}

\* identity()
Identity(S, h, g) == S.self[h] = S.self[g]

\* the call of unique(): assert(_self); return _count.load() == 1;
UniqueCall(S, h) ==
    IF ~Ok(S) THEN S
    ELSE IF S.self[h] = NULL
    THEN IF ndebug THEN UB(S, "ub: null dereference")
         ELSE Abort(S, "assert: using a moved copy_on_write object")
    ELSE IF ~S.allocated[S.self[h]] THEN UB(S, "ub: use after free")
    ELSE S

\* the call of identity(x): assert(_self && x._self); return _self == x._self;
\* (no Cell is read: without the assert two null pointers are compared)
IdentityCall(S, h, x) ==
    IF ~Ok(S) THEN S
    ELSE IF (S.self[h] = NULL \/ S.self[x] = NULL) /\ ~ndebug
    THEN Abort(S, "assert: using a moved copy_on_write object")
    ELSE S

\* T's own operator== and operator<, T an integer
TEq(u, w)   == u = w
TLess(u, w) == u < w

\* a comparison that holds of the handles of one Cell only
LtHHSameCell(S, x, y) == Identity(S, x, y) /\ TLess(Read(S, x), Read(S, y))

\* operator<: (copy_on_write, copy_on_write), (copy_on_write, T), (T, copy_on_write)
LtHH(S, x, y) == ~Identity(S, x, y) /\ TLess(Read(S, x), Read(S, y))
LtHV(S, x, v) == TLess(Read(S, x), v)
LtVH(S, v, y) == TLess(v, Read(S, y))

\* operator>: return y < x;
GtHH(S, x, y) == LtHH(S, y, x)
GtHV(S, x, v) == LtVH(S, v, x)
GtVH(S, v, y) == LtHV(S, y, v)

\* operator<=: return !(y < x);
LeHH(S, x, y) == ~LtHH(S, y, x)
LeHV(S, x, v) == ~LtVH(S, v, x)
LeVH(S, v, y) == ~LtHV(S, y, v)

\* operator>=: return !(x < y);
GeHH(S, x, y) == ~LtHH(S, x, y)
GeHV(S, x, v) == ~LtHV(S, x, v)
GeVH(S, v, y) == ~LtVH(S, v, y)

\* an equality that skips the values of the handles of one Cell
EqHHOtherCell(S, x, y) == ~Identity(S, x, y) /\ TEq(Read(S, x), Read(S, y))

\* operator==
EqHH(S, x, y) == Identity(S, x, y) \/ TEq(Read(S, x), Read(S, y))
EqHV(S, x, v) == TEq(Read(S, x), v)
EqVH(S, v, y) == TEq(v, Read(S, y))

\* operator!=: return !(x == y);
NeHH(S, x, y) == ~EqHH(S, x, y)
NeHV(S, x, v) == ~EqHV(S, x, v)
NeVH(S, v, y) == ~EqVH(S, v, y)

Rels == {"eq", "ne", "lt", "le", "gt", "ge"}

\* the six operators by name
CmpHH(S, rel, x, y) ==
    CASE rel = "eq" -> EqHH(S, x, y) [] rel = "ne" -> NeHH(S, x, y)
      [] rel = "lt" -> LtHH(S, x, y) [] rel = "le" -> LeHH(S, x, y)
      [] rel = "gt" -> GtHH(S, x, y) [] rel = "ge" -> GeHH(S, x, y)
CmpHV(S, rel, x, v) ==
    CASE rel = "eq" -> EqHV(S, x, v) [] rel = "ne" -> NeHV(S, x, v)
      [] rel = "lt" -> LtHV(S, x, v) [] rel = "le" -> LeHV(S, x, v)
      [] rel = "gt" -> GtHV(S, x, v) [] rel = "ge" -> GeHV(S, x, v)
CmpVH(S, rel, v, y) ==
    CASE rel = "eq" -> EqVH(S, v, y) [] rel = "ne" -> NeVH(S, v, y)
      [] rel = "lt" -> LtVH(S, v, y) [] rel = "le" -> LeVH(S, v, y)
      [] rel = "gt" -> GtVH(S, v, y) [] rel = "ge" -> GeVH(S, v, y)

\* the same operator of T, on two values
CmpT(rel, u, w) ==
    CASE rel = "eq" -> u = w  [] rel = "ne" -> u # w
      [] rel = "lt" -> u < w  [] rel = "le" -> u <= w
      [] rel = "gt" -> u > w  [] rel = "ge" -> u >= w

\* what a comparison of two handles does to the state: every one of them
\* comes to identity(), and to read() of both when the Cells differ
CmpCallHH(S, x, y) ==
    LET S1 == IdentityCall(S, x, y)
    IN  IF Ok(S1) /\ Identity(S, x, y) THEN S1
        ELSE ReadCall(ReadCall(S1, x), y)

\* a construction that value-initialises the Cell instead of forwarding x
ValueCtorDropsValue(S, h, c, v) ==
    IF ~Ok(S) THEN S
    ELSE [New(S, c, DefaultValue) EXCEPT !.self[h] = c, !.alive[h] = TRUE]

\* copy_on_write(U&& x)
ValueCtor(S, h, c, v) ==
    IF ~Ok(S) THEN S
    ELSE [New(S, c, v) EXCEPT !.self[h] = c, !.alive[h] = TRUE]

\* a default construction that shares one Cell among the handles it builds
DefaultCtorShared(S, h, c) ==
    LET hs == {g \in UserHandles : S.alive[g] /\ S.self[g] # NULL}
    IN  IF ~Ok(S) THEN S
        ELSE IF hs # {}
        THEN LET g == CHOOSE g \in hs : TRUE
             IN  FetchAdd([S EXCEPT !.self[h] = S.self[g], !.alive[h] = TRUE],
                          S.self[g])
        ELSE [New(S, c, DefaultValue) EXCEPT !.self[h] = c, !.alive[h] = TRUE]

\* copy_on_write()
DefaultCtor(S, h, c) == ValueCtor(S, h, c, DefaultValue)

\* a copy construction without the assert: an empty source gives an empty copy
CopyCtorUnchecked(S, h, x) ==
    IF ~Ok(S) THEN S
    ELSE LET S1 == [S EXCEPT !.self[h] = S.self[x], !.alive[h] = TRUE]
         IN  IF S1.self[h] = NULL THEN S1 ELSE FetchAdd(S1, S1.self[h])

\* copy_on_write(const copy_on_write& x)
CopyCtor(S, h, x) ==
    IF ~Ok(S) THEN S
    ELSE LET S1 == [S EXCEPT !.self[h] = S.self[x], !.alive[h] = TRUE]
         IN  IF S1.self[h] = NULL
             THEN IF ndebug THEN UB(S1, "ub: null dereference")
                  ELSE Abort(S1, "assert: using a moved copy_on_write object")
             ELSE IF ~S1.allocated[S1.self[h]]
             THEN UB(S1, "ub: use after free")
             ELSE FetchAdd(S1, S1.self[h])

\* a move that leaves the source pointing to the Cell
MoveCtorKeepsSource(S, h, x) ==
    IF ~Ok(S) THEN S
    ELSE [S EXCEPT !.self[h] = S.self[x], !.alive[h] = TRUE]

\* copy_on_write(copy_on_write&& x)
MoveCtor(S, h, x) ==
    IF ~Ok(S) THEN S
    ELSE LET p  == S.self[x]
             S1 == [S EXCEPT !.self[x] = NULL, !.self[h] = p, !.alive[h] = TRUE]
         IN  IF p = NULL /\ ~ndebug
             THEN Abort(S1, "assert: using a moved copy_on_write object")
             ELSE S1

\* tests of the count after the decrement instead of the one before it
LastRefAfter(old) == old - 1 = 1
LastRefZero(old) == old = 0

\* fetch_sub(1) == 1: the count taken away was the last one
LastRef(old) == old = 1

\* the release of one count: fetch_sub(1) == 1 ? delete : nothing
Release(S, c) ==
    LET old == S.count[c]
        S1  == FetchSub(S, c)
    IN  IF LastRef(old) THEN Delete(S1, c) ELSE S1

\* ~copy_on_write()
Dtor(S, h) ==
    IF ~Ok(S) THEN S
    ELSE LET c == S.self[h]
         IN  IF c = NULL THEN EndLife(S, h)
             ELSE IF ~S.allocated[c] THEN UB(S, "ub: use after free")
             ELSE IF S.count[c] = 0
             THEN IF ndebug THEN UB(S, "ub: use after free")
                  ELSE Abort(S, "assert: double delete")
             ELSE EndLife(Release(S, c), h)

\* an assignment of y's pointer to x in place of the exchange
SwapOneWay(S, x, y) ==
    IF ~Ok(S) THEN S
    ELSE [S EXCEPT !.self[x] = S.self[y]]

\* swap(x, y)
Swap(S, x, y) ==
    IF ~Ok(S) THEN S
    ELSE [S EXCEPT !.self[x] = S.self[y], !.self[y] = S.self[x]]

\* operator=(copy_on_write&& x): auto tmp{std::move(x)}; swap(*this, tmp);
MoveAssign(S, t, this, x) ==
    Dtor(Swap(MoveCtor(S, TB(t), x), this, TB(t)), TB(t))

\* a copy assignment without the assert on self-assignment
CopyAssignUnchecked(S, t, this, x) ==
    IF ~Ok(S) THEN S
    ELSE Dtor(MoveAssign(CopyCtor(S, TA(t), x), t, this, TA(t)), TA(t))

\* operator=(const copy_on_write& x): *this = copy_on_write(x)
CopyAssign(S, t, this, x) ==
    IF ~Ok(S) THEN S
    ELSE IF this = x /\ ~ndebug
    THEN Abort(S, "assert: self-assignment is not allowed")
    ELSE Dtor(MoveAssign(CopyCtor(S, TA(t), x), t, this, TA(t)), TA(t))

\* operator=(U&& x)
ValueAssign(S, t, this, c, v) ==
    IF ~Ok(S) THEN S
    ELSE IF S.self[this] # NULL /\ ~S.allocated[S.self[this]]
    THEN UB(S, "ub: use after free")
    ELSE IF S.self[this] # NULL /\ Unique(S, this)
    THEN [S EXCEPT !.value[S.self[this]] = v]
    ELSE Dtor(MoveAssign(ValueCtor(S, TA(t), c, v), t, this, TA(t)), TA(t))

\* write(), up to the return of the reference
Write(S, t, this, c) ==
    IF ~Ok(S) THEN S
    ELSE IF S.self[this] = NULL
    THEN IF ndebug THEN UB(S, "ub: null dereference")
         ELSE Abort(S, "assert: using a moved copy_on_write object")
    ELSE IF ~S.allocated[S.self[this]] THEN UB(S, "ub: use after free")
    ELSE IF ~Unique(S, this)
    THEN Dtor(MoveAssign(ValueCtor(S, TA(t), c, Read(S, this)), t, this, TA(t)), TA(t))
    ELSE S

\* a dual-path write that edits in place whether the Cell is shared or not
WriteTransformInPlace(S, t, this, c, fv, gv) ==
    IF ~Ok(S) \/ S.self[this] = NULL THEN S
    ELSE [S EXCEPT !.value[S.self[this]] = gv]

\* write(copyTransform, inPlaceTransform).  The transforms are given by what
\* they make of the current value: copyTransform returns fv, and
\* inPlaceTransform leaves gv in the value it is handed.  If unique,
\* inPlaceTransform runs on the existing value; if shared, the result of
\* copyTransform is installed as a new exclusive Cell.
WriteTransform(S, t, this, c, fv, gv) ==
    IF ~Ok(S) THEN S
    ELSE IF S.self[this] = NULL
    THEN IF ndebug THEN UB(S, "ub: null dereference")
         ELSE Abort(S, "assert: using a moved copy_on_write object")
    ELSE IF ~S.allocated[S.self[this]] THEN UB(S, "ub: use after free")
    ELSE IF ~Unique(S, this)
    THEN Dtor(MoveAssign(ValueCtor(S, TA(t), c, fv), t, this, TA(t)), TA(t))
    ELSE [S EXCEPT !.value[S.self[this]] = gv]

\* write() followed by the caller's store of v through the reference
WriteThenStore(S, t, this, c, v) ==
    LET S1 == Write(S, t, this, c)
    IN  IF ~Ok(S1) THEN S1
        ELSE [S1 EXCEPT !.value[S1.self[this]] = v]

\* copy_on_write(U&& x) when `new model(x)` throws (std::bad_alloc, or T's
\* constructor): the exception leaves the constructor before _self is set,
\* and no handle comes to life
ValueCtorThrows(S, h) == S

\* copy_on_write() when `new model()` throws std::bad_alloc: the constructor
\* is noexcept for a T that is nothrow-constructible, so std::terminate runs
DefaultCtorThrows(S, h) ==
    IF ~Ok(S) THEN S
    ELSE Abort(S, "terminate: exception leaves a noexcept function")

\* an assignment that lets go of the Cell it has before it builds the new one
ValueAssignThrowsReleased(S, this, u) ==
    IF ~Ok(S) \/ S.self[this] = NULL THEN S
    ELSE [Release(S, S.self[this]) EXCEPT !.self[this] = NULL]

\* operator=(U&& x) when it throws.  On the branch of line 134 it is T's
\* assignment that throws, and u is the value it leaves in the Cell; on the
\* branch of line 138 it is copy_on_write(x), before *this is touched.
ValueAssignThrows(S, this, u) ==
    IF ~Ok(S) THEN S
    ELSE IF S.self[this] # NULL /\ ~S.allocated[S.self[this]]
    THEN UB(S, "ub: use after free")
    ELSE IF S.self[this] # NULL /\ Unique(S, this)
    THEN [S EXCEPT !.value[S.self[this]] = u]
    ELSE S

\* write() when copy_on_write(read()) throws, before *this is touched
WriteThrows(S, this) ==
    IF ~Ok(S) THEN S
    ELSE IF S.self[this] = NULL
    THEN IF ndebug THEN UB(S, "ub: null dereference")
         ELSE Abort(S, "assert: using a moved copy_on_write object")
    ELSE IF ~S.allocated[S.self[this]] THEN UB(S, "ub: use after free")
    ELSE S

\* whether the operation takes a Cell from the allocator
ValueAssignAllocates(S, this) == ~(S.self[this] # NULL /\ Unique(S, this))
WriteAllocates(S, this)       == S.self[this] # NULL /\ ~Unique(S, this)


(***************************************************************************)
(* Spec: a single thread of control.  One action per public operation; an  *)
(* action is the whole operation, its temporaries included.                *)
(***************************************************************************)
NoLoc == [op |-> "none", this |-> NULL, x |-> NULL, v |-> 0,
          buf |-> 0, ref |-> NULL, rel |-> NULL, ret |-> "idle",
          pcell |-> NULL, pcount |-> 0, pval |-> 0, seen |-> 0,
          branch |-> "none", conc |-> {}]

NoOp == [op |-> "init", h |-> NULL, x |-> NULL, v |-> 0, u |-> 0,
         pcell |-> NULL, pcount |-> 0, pval |-> 0, ppeers |-> {},
         form |-> "none", ret |-> FALSE]

\* what the operation op on h (argument x or v) started from
Rec(op, h, x, v) ==
    [op |-> op, h |-> h, x |-> x, v |-> v, u |-> 0,
     pcell  |-> self[h],
     pcount |-> IF self[h] # NULL THEN count[self[h]] ELSE 0,
     pval   |-> IF self[h] # NULL THEN value[self[h]] ELSE 0,
     ppeers |-> {g \in UserHandles \ {h} :
                    alive[g] /\ self[h] # NULL /\ self[g] = self[h]},
     form |-> "none", ret |-> FALSE]

\* no sequence of write() calls is being followed
NoSeq == [holders |-> {}, cell |-> NULL, written |-> {}, made |-> 0]

Init ==
    /\ self = [h \in AllHandles |-> NULL]
    /\ alive = [h \in AllHandles |-> FALSE]
    /\ count = [c \in Cells |-> 0]
    /\ value = [c \in Cells |-> DefaultValue]
    /\ allocated = [c \in Cells |-> FALSE]
    /\ fault = "ok"
    /\ ndebug \in BOOLEAN
    /\ wref = NULL
    /\ last = NoOp
    /\ pc = [t \in Threads |-> "idle"]
    /\ loc = [t \in Threads |-> NoLoc]
    /\ nops = 0
    /\ seq = NoSeq

\* between two statements of the program: no reference returned by write()
\* is outstanding, and the program has not been aborted
Idle == wref = NULL /\ fault = "ok"

Frame == UNCHANGED <<ndebug, pc, loc, nops, seq>>

DoDefaultCtor(h) ==
    /\ Idle /\ ~alive[h]
    /\ \E c \in FreeCells(St) \cap SeqCells : Apply(DefaultCtor(St, h, c))
    /\ last' = Rec("default_ctor", h, NULL, DefaultValue)
    /\ UNCHANGED wref /\ Frame

DoValueCtor(h, v) ==
    /\ Idle /\ ~alive[h]
    /\ \E c \in FreeCells(St) \cap SeqCells : Apply(ValueCtor(St, h, c, v))
    /\ last' = Rec("value_ctor", h, NULL, v)
    /\ UNCHANGED wref /\ Frame

DoCopyCtor(h, x) ==
    /\ Idle /\ ~alive[h] /\ alive[x]
    /\ Apply(CopyCtor(St, h, x))
    /\ last' = Rec("copy_ctor", h, x, 0)
    /\ UNCHANGED wref /\ Frame

DoMoveCtor(h, x) ==
    /\ Idle /\ ~alive[h] /\ alive[x]
    /\ Apply(MoveCtor(St, h, x))
    /\ last' = Rec("move_ctor", h, x, 0)
    /\ UNCHANGED wref /\ Frame

DoDtor(h) ==
    /\ Idle /\ alive[h]
    /\ Apply(Dtor(St, h))
    /\ last' = Rec("dtor", h, NULL, 0)
    /\ UNCHANGED wref /\ Frame

DoCopyAssign(h, x) ==
    /\ Idle /\ alive[h] /\ alive[x]
    /\ Apply(CopyAssign(St, MainThread, h, x))
    /\ last' = Rec("copy_assign", h, x, 0)
    /\ UNCHANGED wref /\ Frame

DoMoveAssign(h, x) ==
    /\ Idle /\ alive[h] /\ alive[x]
    /\ Apply(MoveAssign(St, MainThread, h, x))
    /\ last' = Rec("move_assign", h, x, 0)
    /\ UNCHANGED wref /\ Frame

DoValueAssign(h, v) ==
    /\ Idle /\ alive[h]
    /\ IF ValueAssignAllocates(St, h)
       THEN \E c \in FreeCells(St) \cap SeqCells : Apply(ValueAssign(St, MainThread, h, c, v))
       ELSE Apply(ValueAssign(St, MainThread, h, NULL, v))
    /\ last' = Rec("value_assign", h, NULL, v)
    /\ UNCHANGED wref /\ Frame

\* h.write(): the reference it returns is outstanding afterwards
DoWrite(h) ==
    /\ Idle /\ alive[h]
    /\ IF WriteAllocates(St, h)
       THEN \E c \in FreeCells(St) \cap SeqCells : Apply(Write(St, MainThread, h, c))
       ELSE Apply(Write(St, MainThread, h, NULL))
    /\ wref' = IF fault' = "ok" THEN self'[h] ELSE NULL
    /\ last' = Rec("write", h, NULL, 0)
    /\ Frame

\* the caller's `h.write() = v`: the store through the returned reference
DoMutate(v) ==
    /\ wref # NULL /\ fault = "ok"
    /\ value' = [value EXCEPT ![wref] = v]
    /\ wref' = NULL
    /\ last' = [last EXCEPT !.op = "mutate", !.v = v]
    /\ UNCHANGED <<self, alive, count, allocated, fault>> /\ Frame

\* the caller lets the returned reference go unused
DoDropRef ==
    /\ wref # NULL /\ fault = "ok"
    /\ wref' = NULL
    /\ last' = [last EXCEPT !.op = "write_done"]
    /\ UNCHANGED heap /\ Frame

DoSwap(h, x) ==
    /\ Idle /\ alive[h] /\ alive[x]
    /\ Apply(Swap(St, h, x))
    /\ last' = Rec("swap", h, x, 0)
    /\ UNCHANGED wref /\ Frame

\* h.read(), static_cast<const T&>(h), *h, h->...: last.v is the value the
\* caller gets
DoRead(h, form) ==
    /\ Idle /\ alive[h]
    /\ Apply(ReadCall(St, h))
    /\ last' = Rec(form, h, NULL,
                   IF self[h] # NULL /\ allocated[self[h]] THEN Read(St, h) ELSE 0)
    /\ UNCHANGED wref /\ Frame

\* copy_on_write h(v), the construction of the Cell throwing
DoValueCtorThrows(h, v) ==
    /\ Idle /\ ~alive[h]
    /\ Apply(ValueCtorThrows(St, h))
    /\ last' = Rec("value_ctor_throws", h, NULL, v)
    /\ UNCHANGED wref /\ Frame

\* copy_on_write h, the allocation of the Cell throwing
DoDefaultCtorThrows(h) ==
    /\ Idle /\ ~alive[h]
    /\ Apply(DefaultCtorThrows(St, h))
    /\ last' = Rec("default_ctor_throws", h, NULL, DefaultValue)
    /\ UNCHANGED wref /\ Frame

\* h = v, throwing: T's assignment (which leaves u) or the construction of
\* the new Cell
DoValueAssignThrows(h, v, u) ==
    /\ Idle /\ alive[h]
    /\ ValueAssignAllocates(St, h) => u = v
    /\ Apply(ValueAssignThrows(St, h, u))
    /\ last' = Rec("value_assign_throws", h, NULL, v)
    /\ UNCHANGED wref /\ Frame

\* h.write() on a shared handle, the construction of the copy throwing: no
\* reference is returned
DoWriteThrows(h) ==
    /\ Idle /\ alive[h] /\ WriteAllocates(St, h)
    /\ Apply(WriteThrows(St, h))
    /\ last' = Rec("write_throws", h, NULL, 0)
    /\ UNCHANGED wref /\ Frame

\* h.unique(): last.ret is what it returns
DoUnique(h) ==
    /\ Idle /\ alive[h]
    /\ Apply(UniqueCall(St, h))
    /\ last' = [Rec("unique", h, NULL, 0) EXCEPT
                  !.ret = IF Ok(UniqueCall(St, h)) THEN Unique(St, h) ELSE FALSE]
    /\ UNCHANGED wref /\ Frame

\* h.identity(x): last.ret is what it returns
DoIdentity(h, x) ==
    /\ Idle /\ alive[h] /\ alive[x]
    /\ Apply(IdentityCall(St, h, x))
    /\ last' = [Rec("identity", h, x, 0) EXCEPT
                  !.ret = IF Ok(IdentityCall(St, h, x)) THEN Identity(St, h, x)
                          ELSE FALSE]
    /\ UNCHANGED wref /\ Frame

Next ==
    \/ \E h \in UserHandles : DoDefaultCtor(h)
    \/ \E h \in UserHandles, v \in Values : DoValueCtor(h, v)
    \/ \E h, x \in UserHandles : DoCopyCtor(h, x)
    \/ \E h, x \in UserHandles : DoMoveCtor(h, x)
    \/ \E h \in UserHandles : DoDtor(h)
    \/ \E h, x \in UserHandles : DoCopyAssign(h, x)
    \/ \E h, x \in UserHandles : DoMoveAssign(h, x)
    \/ \E h \in UserHandles, v \in Values : DoValueAssign(h, v)
    \/ \E h \in UserHandles : DoWrite(h)
    \/ \E v \in Values : DoMutate(v)
    \/ DoDropRef
    \/ \E h, x \in UserHandles : DoSwap(h, x)
    \/ \E h \in UserHandles, form \in ReadForms : DoRead(h, form)
    \/ \E h \in UserHandles : DoUnique(h)
    \/ \E h \in UserHandles, v \in Values : DoValueCtorThrows(h, v)
    \/ \E h \in UserHandles : DoDefaultCtorThrows(h)
    \/ \E h \in UserHandles, v, u \in Values : DoValueAssignThrows(h, v, u)
    \/ \E h \in UserHandles : DoWriteThrows(h)
    \/ \E h, x \in UserHandles : DoIdentity(h, x)

Spec == Init /\ [][Next]_vars

(***************************************************************************)
(* Type correctness.                                                       *)
(***************************************************************************)
TypeOK ==
    /\ self \in [AllHandles -> Cells \cup {NULL}]
    /\ alive \in [AllHandles -> BOOLEAN]
    /\ count \in [Cells -> Nat]
    /\ value \in [Cells -> Values]
    /\ allocated \in [Cells -> BOOLEAN]
    /\ ndebug \in BOOLEAN
    /\ wref \in Cells \cup {NULL}
    /\ nops \in 0..MaxOps
    /\ fault = "ok" /\ (\A t \in Threads : pc[t] = "idle")
           => \A h \in TempHandles : ~alive[h] /\ self[h] = NULL


(***************************************************************************)
(* SpecMT: NumThreads threads.  Every handle belongs to one thread, which  *)
(* is the only one to touch it; the threads meet in the Cells.  An         *)
(* operation is an invocation followed by its steps; a step is at most one *)
(* access to a Cell (an atomic operation on _count, the start or the end   *)
(* of an access to _value, new, delete) with the thread-local code around  *)
(* it.                                                                     *)
(***************************************************************************)
Owner(h) == ((h - 1) % NumThreads) + 1
Owned(t) == {h \in MTHandles : Owner(h) = t}

\* The program has built one value, copied it into a handle for each thread
\* (and perhaps into the spare handles), and started the threads.
InitMT ==
    /\ \E v \in Values, spare \in SUBSET (MTHandles \ Threads) :
         /\ alive = [h \in AllHandles |-> h \in Threads \cup spare]
         /\ self = [h \in AllHandles |-> IF h \in Threads \cup spare THEN 1 ELSE NULL]
         /\ count = [c \in Cells |-> IF c = 1 THEN NumThreads + Cardinality(spare) ELSE 0]
         /\ value = [c \in Cells |-> IF c = 1 THEN v ELSE DefaultValue]
    /\ allocated = [c \in Cells |-> c = 1]
    /\ fault = "ok"
    /\ ndebug = FALSE      \* the build with assert() live
    /\ wref = NULL
    /\ last = NoOp
    /\ pc = [t \in Threads |-> "idle"]
    /\ loc = [t \in Threads |-> NoLoc]
    /\ nops = 0
    /\ seq = NoSeq

FrameMT == UNCHANGED <<ndebug, wref, last, seq>>
Invoked == nops' = nops + 1
StepMT  == UNCHANGED nops

\* thread t is reading the _value of Cell c to build a copy of it
Reading(t, c) == pc[t] = "w_copy" /\ self[loc[t].this] = c

\* thread t is storing into the _value of Cell c in place
Writing(t, c) ==
    \/ pc[t] = "m_store" /\ loc[t].ref = c
    \/ pc[t] = "a_store" /\ self[loc[t].this] = c

\* the value thread t stores: the threads' edits differ from one another
EditOf(t) == t % (MaxVal + 1)

CanInvoke(t) == pc[t] = "idle" /\ fault = "ok" /\ nops < MaxOps

\* the Cell the operation thread u is in works on
Target(u) ==
    IF alive[loc[u].this] THEN self[loc[u].this]
    ELSE IF loc[u].x # NULL THEN self[loc[u].x] ELSE NULL

\* The invocation of op by thread t on its handle h (argument x or v), which
\* references Cell c.  conc collects the threads whose operation on the
\* same Cell overlaps this one.
Begin(t, op, h, x, v, c) ==
    LET peers == {u \in Threads \ {t} : pc[u] # "idle" /\ c # NULL /\ Target(u) = c}
        L     == [NoLoc EXCEPT !.op = op, !.this = h, !.x = x, !.v = v,
                               !.pcell = c,
                               !.pcount = IF c # NULL THEN count[c] ELSE 0,
                               !.pval = IF c # NULL THEN value[c] ELSE 0,
                               !.conc = peers]
    IN  [u \in Threads |->
           IF u = t THEN L
           ELSE IF u \in peers THEN [loc[u] EXCEPT !.conc = @ \cup {t}]
           ELSE loc[u]]

\* copy_on_write h(x), as far as the initialiser : _self(x._self)
CopyCtorInit(t, h, x) ==
    /\ CanInvoke(t) /\ h \in Owned(t) /\ x \in Owned(t)
    /\ ~alive[h] /\ alive[x] /\ self[x] # NULL
    /\ loc' = Begin(t, "copy_ctor", h, x, 0, self[x])
    /\ self' = [self EXCEPT ![h] = self[x]]
    /\ alive' = [alive EXCEPT ![h] = TRUE]
    /\ pc' = [pc EXCEPT ![t] = "cc_add"]
    /\ UNCHANGED <<count, value, allocated, fault>> /\ FrameMT /\ Invoked

\* _self->_count.fetch_add(1, relaxed)
CopyCtorAdd(t) ==
    /\ pc[t] = "cc_add" /\ fault = "ok"
    /\ IF allocated[self[loc[t].this]]
       THEN Apply(FetchAdd(St, self[loc[t].this]))
       ELSE Apply(UB(St, "ub: use after free"))
    /\ pc' = [pc EXCEPT ![t] = "idle"]
    /\ UNCHANGED loc /\ FrameMT /\ StepMT

\* copy_on_write h(std::move(x)): _self{std::exchange(x._self, nullptr)}
\* touches no Cell
MoveCtorStep(t, h, x) ==
    /\ CanInvoke(t) /\ h \in Owned(t) /\ x \in Owned(t)
    /\ ~alive[h] /\ alive[x] /\ self[x] # NULL
    /\ loc' = Begin(t, "move_ctor", h, x, 0, self[x])
    /\ Apply(MoveCtor(St, h, x))
    /\ UNCHANGED pc /\ FrameMT /\ Invoked

InvokeDtor(t, h) ==
    /\ CanInvoke(t) /\ h \in Owned(t) /\ alive[h]
    /\ loc' = [Begin(t, "dtor", h, NULL, 0, self[h]) EXCEPT ![t].rel = h, ![t].ret = "idle"]
    /\ pc' = [pc EXCEPT ![t] = "rel_sub"]
    /\ UNCHANGED heap /\ FrameMT /\ Invoked

\* ~copy_on_write() of loc[t].rel: _count.fetch_sub(1, release) == 1.
\* When that was not the last count the destructor is done, and so is the
\* enclosing assignment: its emptied temporary TA(t) goes out of scope.
ReleaseSub(t) ==
    /\ pc[t] = "rel_sub" /\ fault = "ok"
    /\ LET h == loc[t].rel
           c == self[h]
       IN  IF c = NULL
           THEN /\ Apply(EndLife(EndLife(St, h), TA(t)))
                /\ pc' = [pc EXCEPT ![t] = loc[t].ret]
           ELSE IF ~allocated[c]
           THEN /\ Apply(UB(St, "ub: use after free"))
                /\ pc' = pc
           ELSE IF count[c] = 0
           THEN /\ Apply(IF ndebug THEN UB(St, "ub: use after free")
                         ELSE Abort(St, "assert: double delete"))
                /\ pc' = pc
           ELSE IF LastRef(count[c])
           THEN /\ Apply(FetchSub(St, c))
                /\ pc' = [pc EXCEPT ![t] = "rel_del"]
           ELSE /\ Apply(EndLife(EndLife(FetchSub(St, c), h), TA(t)))
                /\ pc' = [pc EXCEPT ![t] = loc[t].ret]
    /\ UNCHANGED loc /\ FrameMT /\ StepMT

\* std::atomic_thread_fence(acquire); delete _self;
ReleaseDelete(t) ==
    /\ pc[t] = "rel_del" /\ fault = "ok"
    /\ LET h == loc[t].rel
           c == self[h]
       IN  IF allocated[c]
           THEN Apply(EndLife(EndLife(Delete(St, c), h), TA(t)))
           ELSE Apply(UB(St, "ub: double free"))
    /\ pc' = [pc EXCEPT ![t] = loc[t].ret]
    /\ UNCHANGED loc /\ FrameMT /\ StepMT

InvokeWrite(t, h) ==
    /\ CanInvoke(t) /\ h \in Owned(t) /\ alive[h] /\ self[h] # NULL
    /\ loc' = Begin(t, "write", h, NULL, 0, self[h])
    /\ pc' = [pc EXCEPT ![t] = "w_unique"]
    /\ UNCHANGED heap /\ FrameMT /\ Invoked

\* if (!unique())
WriteUnique(t) ==
    /\ pc[t] = "w_unique" /\ fault = "ok"
    /\ IF ~allocated[self[loc[t].this]]
       THEN /\ Apply(UB(St, "ub: use after free"))
            /\ UNCHANGED <<pc, loc>>
       ELSE /\ UNCHANGED heap
            /\ IF Unique(St, loc[t].this)
               THEN /\ pc' = [pc EXCEPT ![t] = "w_ret"]
                    /\ loc' = [loc EXCEPT ![t].branch = "inplace"]
               ELSE /\ pc' = [pc EXCEPT ![t] = "w_read"]
                    /\ loc' = [loc EXCEPT ![t].branch = "copy"]
    /\ FrameMT /\ StepMT

\* copy_on_write(read()): T's copy constructor starts to read _value
WriteRead(t) ==
    /\ pc[t] = "w_read" /\ fault = "ok"
    /\ IF ~allocated[self[loc[t].this]]
       THEN /\ Apply(UB(St, "ub: use after free"))
            /\ UNCHANGED <<pc, loc>>
       ELSE /\ UNCHANGED heap
            /\ loc' = [loc EXCEPT ![t].buf = Read(St, loc[t].this)]
            /\ pc' = [pc EXCEPT ![t] = "w_copy"]
    /\ FrameMT /\ StepMT

\* new model(read()) is complete; *this = <it>: tmp{std::move(x)}; swap(*this, tmp);
WriteCopy(t) ==
    /\ pc[t] = "w_copy" /\ fault = "ok"
    /\ \E c \in FreeCells(St) :
         Apply(Swap(MoveCtor(ValueCtor(St, TA(t), c, loc[t].buf), TB(t), TA(t)),
                    loc[t].this, TB(t)))
    /\ loc' = [loc EXCEPT ![t].rel = TB(t), ![t].ret = "w_ret"]
    /\ pc' = [pc EXCEPT ![t] = "rel_sub"]
    /\ FrameMT /\ StepMT

\* return _self->_value; and the caller's `h.write() = v` starts its store
\* through the reference (seen: the value the reference showed on return)
WriteReturn(t, v) ==
    /\ pc[t] = "w_ret" /\ fault = "ok" /\ v = EditOf(t)
    /\ loc' = [loc EXCEPT ![t].ref = self[loc[t].this],
                          ![t].seen = Read(St, loc[t].this),
                          ![t].v = v]
    /\ pc' = [pc EXCEPT ![t] = "m_store"]
    /\ UNCHANGED heap /\ FrameMT /\ StepMT

\* ... and is complete
MutateStore(t) ==
    /\ pc[t] = "m_store" /\ fault = "ok"
    /\ IF allocated[loc[t].ref]
       THEN Apply([St EXCEPT !.value[loc[t].ref] = loc[t].v])
       ELSE Apply(UB(St, "ub: use after free"))
    /\ pc' = [pc EXCEPT ![t] = "idle"]
    /\ UNCHANGED loc /\ FrameMT /\ StepMT

\* h = v, as far as the test: if (_self && unique())
AssignUnique(t, h, v) ==
    /\ CanInvoke(t) /\ h \in Owned(t) /\ alive[h] /\ v = EditOf(t)
    /\ IF self[h] # NULL /\ ~allocated[self[h]]
       THEN /\ Apply(UB(St, "ub: use after free"))
            /\ UNCHANGED <<pc, loc>>
       ELSE /\ UNCHANGED heap
            /\ IF self[h] # NULL /\ Unique(St, h)
               THEN /\ pc' = [pc EXCEPT ![t] = "a_store"]
                    /\ loc' = [Begin(t, "value_assign", h, NULL, v, self[h])
                                 EXCEPT ![t].branch = "inplace"]
               ELSE /\ pc' = [pc EXCEPT ![t] = "a_new"]
                    /\ loc' = [Begin(t, "value_assign", h, NULL, v, self[h])
                                 EXCEPT ![t].branch = "copy"]
    /\ FrameMT /\ Invoked

\* _self->_value = std::forward<U>(x);
AssignStore(t) ==
    /\ pc[t] = "a_store" /\ fault = "ok"
    /\ IF allocated[self[loc[t].this]]
       THEN Apply([St EXCEPT !.value[self[loc[t].this]] = loc[t].v])
       ELSE Apply(UB(St, "ub: use after free"))
    /\ pc' = [pc EXCEPT ![t] = "idle"]
    /\ UNCHANGED loc /\ FrameMT /\ StepMT

\* *this = copy_on_write(std::forward<U>(x)): tmp{std::move(x)}; swap(*this, tmp);
AssignNew(t) ==
    /\ pc[t] = "a_new" /\ fault = "ok"
    /\ \E c \in FreeCells(St) :
         Apply(Swap(MoveCtor(ValueCtor(St, TA(t), c, loc[t].v), TB(t), TA(t)),
                    loc[t].this, TB(t)))
    /\ loc' = [loc EXCEPT ![t].rel = TB(t), ![t].ret = "idle"]
    /\ pc' = [pc EXCEPT ![t] = "rel_sub"]
    /\ FrameMT /\ StepMT

NextMT ==
    \/ \E t \in Threads, h, x \in MTHandles : CopyCtorInit(t, h, x)
    \/ \E t \in Threads : CopyCtorAdd(t)
    \/ \E t \in Threads, h, x \in MTHandles : MoveCtorStep(t, h, x)
    \/ \E t \in Threads, h \in MTHandles : InvokeDtor(t, h)
    \/ \E t \in Threads : ReleaseSub(t)
    \/ \E t \in Threads : ReleaseDelete(t)
    \/ \E t \in Threads, h \in MTHandles : InvokeWrite(t, h)
    \/ \E t \in Threads : WriteUnique(t)
    \/ \E t \in Threads : WriteRead(t)
    \/ \E t \in Threads : WriteCopy(t)
    \/ \E t \in Threads, v \in Values : WriteReturn(t, v)
    \/ \E t \in Threads : MutateStore(t)
    \/ \E t \in Threads, h \in MTHandles, v \in Values : AssignUnique(t, h, v)
    \/ \E t \in Threads : AssignStore(t)
    \/ \E t \in Threads : AssignNew(t)

SpecMT == InitMT /\ [][NextMT]_vars


(***************************************************************************)
(* SpecCmp: the comparison operators, applied to handles that a program    *)
(* has built: every handle holds a Cell, any of them may share one.        *)
(***************************************************************************)
InitCmp ==
    /\ \E s \in [UserHandles -> SeqCells], val \in [SeqCells -> Values] :
         LET used == {s[h] : h \in UserHandles}
         IN  /\ self = [h \in AllHandles |-> IF h \in UserHandles THEN s[h] ELSE NULL]
             /\ alive = [h \in AllHandles |-> h \in UserHandles]
             /\ allocated = [c \in Cells |-> c \in used]
             /\ count = [c \in Cells |->
                           Cardinality({h \in UserHandles : s[h] = c})]
             /\ value = [c \in Cells |-> IF c \in used THEN val[c] ELSE DefaultValue]
    /\ fault = "ok"
    /\ ndebug \in BOOLEAN
    /\ wref = NULL
    /\ last = NoOp
    /\ pc = [t \in Threads |-> "idle"]
    /\ loc = [t \in Threads |-> NoLoc]
    /\ nops = 0
    /\ seq = NoSeq

\* a rel b, both handles: last.ret is what the operator returns
CompareHH(rel, a, b) ==
    /\ Idle /\ alive[a] /\ alive[b]
    /\ Apply(CmpCallHH(St, a, b))
    /\ last' = [Rec(rel, a, b, 0) EXCEPT
                  !.form = "hh",
                  !.ret = IF Ok(CmpCallHH(St, a, b)) THEN CmpHH(St, rel, a, b)
                          ELSE FALSE]
    /\ UNCHANGED wref /\ Frame

\* a rel v, a handle and a value
CompareHV(rel, a, v) ==
    /\ Idle /\ alive[a]
    /\ Apply(ReadCall(St, a))
    /\ last' = [Rec(rel, a, NULL, v) EXCEPT
                  !.form = "hv",
                  !.ret = IF Ok(ReadCall(St, a)) THEN CmpHV(St, rel, a, v)
                          ELSE FALSE]
    /\ UNCHANGED wref /\ Frame

\* v rel b, a value and a handle
CompareVH(rel, v, b) ==
    /\ Idle /\ alive[b]
    /\ Apply(ReadCall(St, b))
    /\ last' = [Rec(rel, b, NULL, v) EXCEPT
                  !.form = "vh",
                  !.ret = IF Ok(ReadCall(St, b)) THEN CmpVH(St, rel, v, b)
                          ELSE FALSE]
    /\ UNCHANGED wref /\ Frame

NextCmp ==
    \/ \E rel \in Rels, a, b \in UserHandles : CompareHH(rel, a, b)
    \/ \E rel \in Rels, a \in UserHandles, v \in Values : CompareHV(rel, a, v)
    \/ \E rel \in Rels, b \in UserHandles, v \in Values : CompareVH(rel, v, b)

SpecCmp == InitCmp /\ [][NextCmp]_vars

(***************************************************************************)
(* SpecDual: the dual-path write, applied to handles that a program has    *)
(* built and copied (the configurations of InitCmp).                       *)
(***************************************************************************)
\* h.write(copyTransform, inPlaceTransform): last.v is what copyTransform
\* makes of h's value and last.u what inPlaceTransform makes of it
DualWrite(h, fv, gv) ==
    /\ Idle /\ alive[h]
    /\ IF WriteAllocates(St, h)
       THEN \E c \in FreeCells(St) \cap SeqCells :
               Apply(WriteTransform(St, MainThread, h, c, fv, gv))
       ELSE Apply(WriteTransform(St, MainThread, h, NULL, fv, gv))
    /\ last' = [Rec("write_transform", h, NULL, fv) EXCEPT !.u = gv]
    /\ UNCHANGED wref /\ Frame

NextDual == \E h \in UserHandles, fv, gv \in Values : DualWrite(h, fv, gv)

SpecDual == InitCmp /\ [][NextDual]_vars

(***************************************************************************)
(* SpecSeq: the handles of one Cell call write(), each once, one after     *)
(* another.  The program has built a value and copied the handle n - 1     *)
(* times; seq.holders are the n handles, seq.cell is the Cell they share,  *)
(* seq.written are those that have called write(), seq.made is the number  *)
(* of Cells taken from the allocator since.                                *)
(***************************************************************************)
InitSeq ==
    /\ \E hs \in SUBSET UserHandles \ {{}}, c \in SeqCells, v \in Values :
         /\ self = [h \in AllHandles |-> IF h \in hs THEN c ELSE NULL]
         /\ alive = [h \in AllHandles |-> h \in hs]
         /\ allocated = [d \in Cells |-> d = c]
         /\ count = [d \in Cells |-> IF d = c THEN Cardinality(hs) ELSE 0]
         /\ value = [d \in Cells |-> IF d = c THEN v ELSE DefaultValue]
         /\ seq = [holders |-> hs, cell |-> c, written |-> {}, made |-> 0]
    /\ fault = "ok"
    /\ ndebug \in BOOLEAN
    /\ wref = NULL
    /\ last = NoOp
    /\ pc = [t \in Threads |-> "idle"]
    /\ loc = [t \in Threads |-> NoLoc]
    /\ nops = 0

FrameSeq == UNCHANGED <<ndebug, pc, loc, nops>>

\* the Cells `new model` has returned in this step
Made == {c \in Cells : allocated'[c] /\ ~allocated[c]}

\* h.write(), by a handle that has not called it yet
SeqWrite(h) ==
    /\ Idle /\ alive[h] /\ h \in seq.holders \ seq.written
    /\ IF WriteAllocates(St, h)
       THEN \E c \in FreeCells(St) \cap SeqCells : Apply(Write(St, MainThread, h, c))
       ELSE Apply(Write(St, MainThread, h, NULL))
    /\ wref' = IF fault' = "ok" THEN self'[h] ELSE NULL
    /\ last' = Rec("write", h, NULL, 0)
    /\ seq' = [seq EXCEPT !.written = @ \cup {h},
                          !.made = @ + Cardinality(Made)]
    /\ FrameSeq

\* the caller's store through the reference write() has returned
SeqMutate(v) ==
    /\ wref # NULL /\ fault = "ok"
    /\ value' = [value EXCEPT ![wref] = v]
    /\ wref' = NULL
    /\ last' = [last EXCEPT !.op = "mutate", !.v = v]
    /\ UNCHANGED <<self, alive, count, allocated, fault, seq>> /\ FrameSeq

\* the caller lets the reference go unused
SeqDropRef ==
    /\ wref # NULL /\ fault = "ok"
    /\ wref' = NULL
    /\ last' = [last EXCEPT !.op = "write_done"]
    /\ UNCHANGED heap /\ UNCHANGED seq /\ FrameSeq

NextSeq ==
    \/ \E h \in UserHandles : SeqWrite(h)
    \/ \E v \in Values : SeqMutate(v)
    \/ SeqDropRef

SpecSeq == InitSeq /\ [][NextSeq]_vars


(***************************************************************************)
(* Properties.                                                             *)
(***************************************************************************)
\* the handles, temporaries included, that reference Cell c
Refs(c) == {h \in AllHandles : alive[h] /\ self[h] = c}

AllIdle == \A t \in Threads : pc[t] = "idle"

\* C1: a step changes the value of a Cell in place (the store through the
\* reference write() returned, or the in-place branch of value assignment)
\* only if the Cell's count is 1 before and after; the store through the
\* reference always finds the count at 1.
C1_MutatedOnlyWhileUnique ==
    [][/\ \A c \in Cells :
            allocated[c] /\ allocated'[c] /\ value'[c] # value[c]
            => count[c] = 1 /\ count'[c] = 1
       /\ last'.op = "mutate" /\ wref # NULL
            => allocated[wref] /\ count[wref] = 1]_vars

\* a value assignment has stored a new value in place into an exclusive Cell
C1_Witness ==
    /\ last.op = "value_assign" /\ fault = "ok"
    /\ last.pcount = 1 /\ self[last.h] = last.pcell
    /\ value[last.pcell] = last.v /\ last.v # last.pval

\* C2: write(), the store through its reference, and value assignment, on a
\* handle h leave the value every other non-empty handle g reads unchanged.
C2_OthersUnchanged ==
    [][last'.op \in {"write", "mutate", "value_assign"}
       => \A g \in UserHandles \ {last'.h} :
            alive[g] /\ self[g] # NULL
            => /\ alive'[g] /\ self'[g] # NULL
               /\ value'[self'[g]] = value[self[g]]]_vars

\* h.write() = v has completed on a handle that shared its Cell with g, v
\* differs from the shared value, and g still reads the shared value
C2_Witness ==
    /\ last.op = "mutate" /\ last.ppeers # {}
    /\ value[self[last.h]] = last.v /\ last.v # last.pval
    /\ \A g \in last.ppeers : alive[g] /\ value[self[g]] = last.pval

\* C3: if a and b are the only two handles of a Cell holding v, then after
\* b.write() = v2 with v2 # v: !a.identity(b), a.read() == v, b.read() == v2,
\* a.unique() and b.unique().
C3_WriteDetaches ==
    (last.op = "mutate" /\ Cardinality(last.ppeers) = 1 /\ last.pcount = 2
        /\ last.v # last.pval)
    => \A a \in last.ppeers :
         LET b == last.h
         IN  /\ alive[a] /\ alive[b] /\ self[a] # NULL /\ self[b] # NULL
             /\ ~Identity(St, a, b)
             /\ Read(St, a) = last.pval
             /\ Read(St, b) = last.v
             /\ Unique(St, a) /\ Unique(St, b)

\* b.write() = v2 has completed where exactly one other handle shared b's Cell
C3_Witness ==
    /\ last.op = "mutate" /\ Cardinality(last.ppeers) = 1 /\ last.pcount = 2
    /\ last.v # last.pval /\ fault = "ok"
    /\ self[last.h] # last.pcell

\* C4: copy construction b(a) from a non-empty a allocates no Cell and copies
\* no value: a and b reference the same Cell and read the same value, that
\* Cell's count is one higher, no other count changes, neither is unique.
C4_CopyShares ==
    [][(last'.op = "copy_ctor" /\ self[last'.x] # NULL)
       => LET a == last'.x
              b == last'.h
              c == self[a]
          IN  /\ fault' = "ok"
              /\ allocated' = allocated /\ value' = value
              /\ alive'[b] /\ self'[a] = c /\ self'[b] = c
              /\ value'[self'[a]] = value'[self'[b]]
              /\ count'[c] = count[c] + 1
              /\ \A d \in Cells \ {c} : count'[d] = count[d]
              /\ count'[self'[a]] # 1 /\ count'[self'[b]] # 1]_vars

\* a copy has been constructed from a handle that was unique
C4_Witness ==
    /\ last.op = "copy_ctor" /\ fault = "ok"
    /\ self[last.x] # NULL /\ self[last.h] = self[last.x]
    /\ count[self[last.h]] = 2

\* C5: between operations, the count of each live Cell is the number of
\* handles that reference it.
C5_CountIsHandles ==
    fault = "ok" => \A c \in Cells : allocated[c] => count[c] = Cardinality(Refs(c))

\* a copy assignment has made its target share the source's Cell and has
\* released the Cell the target had
C5_Witness ==
    /\ last.op = "copy_assign" /\ fault = "ok"
    /\ last.pcell # NULL /\ last.pcount = 1 /\ ~allocated[last.pcell]
    /\ self[last.h] = self[last.x] /\ count[self[last.h]] = 2

\* C6: every non-empty handle references a Cell that is allocated and whose
\* count is positive; no destructor finds the count at zero or the Cell gone.
C6_NoDanglingNoDoubleDelete ==
    /\ \A h \in AllHandles :
         alive[h] /\ self[h] # NULL => allocated[self[h]] /\ count[self[h]] >= 1
    /\ fault \notin {"assert: double delete", "ub: use after free", "ub: double free"}

\* a handle has been destroyed while another one goes on referencing its Cell
C6_Witness ==
    /\ last.op = "dtor" /\ last.pcount = 2 /\ fault = "ok"
    /\ \E g \in UserHandles : alive[g] /\ self[g] = last.pcell /\ allocated[last.pcell]

\* C7: every allocated Cell is referenced by a handle: the release of the
\* last reference frees the Cell, and with no handle left no Cell is left.
C7_NoLeak ==
    /\ [](fault = "ok" => \A c \in Cells : allocated[c] => Refs(c) # {})
    /\ [][\A c \in Cells :
            allocated[c] /\ count[c] = 1 /\ (\A h \in AllHandles : self'[h] # c)
            => ~allocated'[c]]_vars

\* the last handle of the program has been destroyed, and it held a Cell
C7_Witness ==
    /\ last.op = "dtor" /\ last.pcount = 1 /\ fault = "ok"
    /\ \A h \in AllHandles : ~alive[h]
    /\ \A c \in Cells : ~allocated[c]


\* C12: write() on a handle that is unique allocates no Cell and copies no
\* value: the handle references the same Cell, whose count is still 1 and
\* whose value is the same, the reference returned is to that Cell, and no
\* other handle or Cell is changed.
C12_UniqueWriteCopiesNothing ==
    [][(last'.op = "write" /\ self[last'.h] # NULL /\ count[self[last'.h]] = 1)
       => /\ fault' = "ok"
          /\ allocated' = allocated /\ value' = value /\ count' = count
          /\ self' = self /\ alive' = alive
          /\ self'[last'.h] = self[last'.h] /\ count'[self'[last'.h]] = 1
          /\ wref' = self[last'.h]]_vars

\* write() has returned on a unique handle while another handle holds a Cell
\* of its own
C12_Witness ==
    /\ last.op = "write" /\ fault = "ok" /\ wref # NULL
    /\ last.pcount = 1 /\ self[last.h] = last.pcell /\ wref = last.pcell
    /\ \E g \in UserHandles \ {last.h} : alive[g] /\ self[g] # NULL

\* C13: value assignment h = v on a unique handle assigns in place: no Cell
\* is allocated or freed, h references the same Cell as before, its count is
\* still 1, no other Cell or handle changes, and h.read() == v afterwards.
C13_UniqueAssignInPlace ==
    [][(last'.op = "value_assign" /\ self[last'.h] # NULL
          /\ count[self[last'.h]] = 1)
       => LET h == last'.h
              c == self[h]
          IN  /\ fault' = "ok"
              /\ allocated' = allocated /\ count' = count
              /\ self' = self /\ alive' = alive
              /\ self'[h] = c /\ count'[c] = 1
              /\ value'[self'[h]] = last'.v
              /\ \A d \in Cells \ {c} : value'[d] = value[d]]_vars

\* a value assignment on a unique handle has completed, with a value that
\* differs from the one held, while another handle holds a Cell of its own
C13_Witness ==
    /\ last.op = "value_assign" /\ fault = "ok"
    /\ last.pcell # NULL /\ last.pcount = 1 /\ last.v # last.pval
    /\ self[last.h] = last.pcell /\ Read(St, last.h) = last.v
    /\ \E g \in UserHandles \ {last.h} :
         alive[g] /\ self[g] # NULL /\ self[g] # last.pcell

\* C14: value assignment h = v on a shared handle detaches h: h references
\* a Cell allocated by the assignment, with count 1 and value v; the count
\* of the formerly shared Cell is one lower and its value is unchanged; no
\* former peer g has h.identity(g), and each still references that Cell.
C14_SharedAssignDetaches ==
    [][(last'.op = "value_assign" /\ self[last'.h] # NULL
          /\ count[self[last'.h]] > 1)
       => LET h == last'.h
              c == self[h]
              n == self'[h]
          IN  /\ fault' = "ok"
              /\ n # NULL /\ n # c /\ ~allocated[n] /\ allocated'[n]
              /\ count'[n] = 1 /\ value'[n] = last'.v
              /\ allocated'[c] /\ count'[c] = count[c] - 1
              /\ value'[c] = value[c]
              /\ \A d \in Cells \ {c, n} :
                    /\ allocated'[d] = allocated[d]
                    /\ count'[d] = count[d] /\ value'[d] = value[d]
              /\ \A g \in last'.ppeers :
                    /\ alive'[g] /\ self'[g] = c
                    /\ self'[h] # self'[g]]_vars

\* a value assignment on a handle that shared its Cell with another one has
\* completed, with a value that differs from the shared one
C14_Witness ==
    /\ last.op = "value_assign" /\ fault = "ok"
    /\ last.pcount = 2 /\ last.ppeers # {} /\ last.v # last.pval
    /\ self[last.h] # last.pcell /\ count[self[last.h]] = 1
    /\ \A g \in last.ppeers : self[g] = last.pcell /\ Read(St, g) = last.pval

\* one count has been released on Cell c: the Cell is freed if that was its
\* last count, and its count is one lower if it was not
ReleasedOne(c) ==
    /\ count[c] = 1 => ~allocated'[c]
    /\ count[c] > 1 => allocated'[c] /\ count'[c] = count[c] - 1
                         /\ value'[c] = value[c]

\* the step allocates no Cell and changes the value of no Cell it leaves live
NoValueCopied ==
    \A d \in Cells : allocated'[d] => allocated[d] /\ value'[d] = value[d]

\* C15 as stated: copy assignment b = a (a and b distinct, a non-empty)
\* makes b share a's Cell, whose count is one higher afterwards; the Cell b
\* referenced before has one count released; no value is copied.
C15_CopyAssignCountsUp ==
    [][(last'.op = "copy_assign" /\ last'.h # last'.x /\ self[last'.x] # NULL)
       => LET a  == last'.x
              b  == last'.h
              ca == self[a]
              cb == self[b]
          IN  /\ fault' = "ok"
              /\ self'[a] = ca /\ self'[b] = ca
              /\ count'[ca] = count[ca] + 1
              /\ cb # NULL => ReleasedOne(cb)
              /\ NoValueCopied]_vars

\* C15 as amended: copy assignment b = a (a and b distinct, a non-empty)
\* makes b share a's Cell and copies no value.  If b did not reference a's
\* Cell before, the count of a's Cell is one higher and the Cell b
\* referenced before, if any, has one count released (it is freed if that
\* was its last).  If b already referenced a's Cell nothing changes: the
\* count taken by the temporary copy is the one released.
C15_CopyAssignShares ==
    [][(last'.op = "copy_assign" /\ last'.h # last'.x /\ self[last'.x] # NULL)
       => LET a  == last'.x
              b  == last'.h
              ca == self[a]
              cb == self[b]
          IN  /\ fault' = "ok"
              /\ self'[a] = ca /\ self'[b] = ca
              /\ NoValueCopied
              /\ cb # ca => /\ count'[ca] = count[ca] + 1
                             /\ cb # NULL => ReleasedOne(cb)
                             /\ \A d \in Cells \ {ca, cb} :
                                   count'[d] = count[d]
                                   /\ allocated'[d] = allocated[d]
              /\ cb = ca => /\ count' = count /\ allocated' = allocated
                             /\ value' = value /\ self' = self]_vars

\* b = a has completed where b held a Cell of its own with another value:
\* that Cell is gone and b reads a's value from a's Cell
C15_Witness ==
    /\ last.op = "copy_assign" /\ fault = "ok" /\ last.h # last.x
    /\ last.pcell # NULL /\ last.pcell # self[last.x]
    /\ Identity(St, last.h, last.x) /\ ~Unique(St, last.x)
    /\ Read(St, last.h) # last.pval

\* C16: move construction b(std::move(a)) from a non-empty a gives a's Cell
\* to b and leaves a empty; no count, value or allocation changes, so
\* b.unique() afterwards is a.unique() before.
C16_MoveCtorTransfers ==
    [][(last'.op = "move_ctor" /\ self[last'.x] # NULL)
       => LET a == last'.x
              b == last'.h
              c == self[a]
          IN  /\ fault' = "ok"
              /\ alive'[b] /\ self'[b] = c /\ self'[a] = NULL
              /\ count' = count /\ value' = value /\ allocated' = allocated
              /\ IsOne(count'[self'[b]]) <=> IsOne(count[self[a]])
              /\ \A g \in AllHandles \ {a, b} : self'[g] = self[g]]_vars

\* a move construction has completed: the new handle holds a Cell, alone,
\* and the source is alive and empty
C16_Witness ==
    /\ last.op = "move_ctor" /\ fault = "ok"
    /\ alive[last.x] /\ self[last.x] = NULL
    /\ alive[last.h] /\ self[last.h] # NULL /\ Unique(St, last.h)

\* C17 as stated: move assignment b = std::move(a) (a non-empty, a and b
\* distinct) leaves b with the Cell a referenced and a empty, keeps that
\* Cell's count unchanged, and releases one count on the Cell b referenced
\* before.
C17_MoveAssignKeepsCount ==
    [][(last'.op = "move_assign" /\ last'.h # last'.x /\ self[last'.x] # NULL)
       => LET a  == last'.x
              b  == last'.h
              ca == self[a]
              cb == self[b]
          IN  /\ fault' = "ok"
              /\ self'[b] = ca /\ self'[a] = NULL
              /\ allocated'[ca] /\ count'[ca] = count[ca]
              /\ cb # NULL => ReleasedOne(cb)]_vars

\* C17 as amended: move assignment b = std::move(a) (a non-empty, a and b
\* distinct) leaves b with the Cell a referenced and a empty, and releases
\* one count on the Cell b referenced before (freeing it if that was its
\* last).  The count of a's Cell is unchanged if b did not reference it
\* before; if b already did, that Cell is the one released, so its count
\* is one lower.
C17_MoveAssignTransfers ==
    [][(last'.op = "move_assign" /\ last'.h # last'.x /\ self[last'.x] # NULL)
       => LET a  == last'.x
              b  == last'.h
              ca == self[a]
              cb == self[b]
          IN  /\ fault' = "ok"
              /\ self'[b] = ca /\ self'[a] = NULL /\ alive'[a]
              /\ allocated'[ca] /\ value'[ca] = value[ca]
              /\ NoValueCopied
              /\ cb # NULL => ReleasedOne(cb)
              /\ cb # ca => count'[ca] = count[ca]
              /\ cb = ca => count'[ca] = count[ca] - 1
              /\ \A d \in Cells \ {ca, cb} :
                    count'[d] = count[d] /\ allocated'[d] = allocated[d]]_vars

\* b = std::move(a) has completed where b held a Cell of its own with
\* another value: that Cell is gone, a is empty, and b alone holds a's Cell
C17_Witness ==
    /\ last.op = "move_assign" /\ fault = "ok" /\ last.h # last.x
    /\ last.pcell # NULL /\ last.pcount = 1 /\ ~allocated[last.pcell]
    /\ alive[last.x] /\ self[last.x] = NULL
    /\ self[last.h] # NULL /\ self[last.h] # last.pcell
    /\ Unique(St, last.h) /\ Read(St, last.h) # last.pval

\* C18: read(), operator*, operator-> and the conversion to const T& on a
\* non-empty handle return the value of the handle's Cell and change
\* nothing: no count, no handle's reference, no value, no allocation; so
\* the results of unique() and identity() are what they were.
C18_ReadChangesNothing ==
    [][(last'.op \in ReadForms /\ self[last'.h] # NULL)
       => /\ fault' = "ok"
          /\ last'.v = value[self[last'.h]]
          /\ count' = count /\ self' = self /\ value' = value
          /\ allocated' = allocated /\ alive' = alive
          /\ \A a \in UserHandles :
                alive[a] /\ self[a] # NULL
                => /\ IsOne(count'[self'[a]]) <=> IsOne(count[self[a]])
                   /\ \A b \in UserHandles :
                         alive[b] /\ self[b] # NULL
                         => ((self'[a] = self'[b]) <=> (self[a] = self[b]))]_vars

\* a handle that shares its Cell with another one has been read through
\* operator->, and has returned the value of the Cell
C18_Witness ==
    /\ last.op = "arrow" /\ fault = "ok"
    /\ last.pcount = 2 /\ last.ppeers # {}
    /\ self[last.h] = last.pcell /\ last.v = Read(St, last.h)
    /\ count[last.pcell] = 2

\* C19: between operations, for every non-empty handle a: a.unique() iff no
\* other live non-empty handle b has a.identity(b), that is, iff exactly
\* one handle references a's Cell.
C19_UniqueIffSoleHolder ==
    fault = "ok"
    => \A a \in UserHandles :
         alive[a] /\ self[a] # NULL
         => /\ Unique(St, a)
                <=> ~\E b \in UserHandles \ {a} :
                       alive[b] /\ self[b] # NULL /\ Identity(St, a, b)
            /\ Unique(St, a) <=> Cardinality(Refs(self[a])) = 1

\* a handle that shared its Cell is unique again, its peer having been
\* destroyed, while the other handle lives on
C19_Witness ==
    /\ last.op = "dtor" /\ last.pcount = 2 /\ fault = "ok" /\ wref = NULL
    /\ \E g \in UserHandles \ {last.h} :
         /\ alive[g] /\ self[g] = last.pcell /\ Unique(St, g)
         /\ Cardinality(Refs(self[g])) = 1

\* the heap after the step
StNext == St'

BuiltAlone(h, v) ==
    LET c == self'[h]
    IN  /\ fault' = "ok" /\ alive'[h]
        /\ c # NULL /\ ~allocated[c] /\ allocated'[c]
        /\ count'[c] = 1 /\ value'[c] = v
        /\ \A g \in AllHandles \ {h} : self'[g] = self[g] /\ self'[g] # c
        /\ \A d \in Cells \ {c} :
              /\ allocated'[d] = allocated[d]
              /\ count'[d] = count[d] /\ value'[d] = value[d]

\* C24: for every value v, the construction of a handle from v gives a
\* handle that reads v and references a Cell allocated by the construction,
\* with count 1 (the handle is unique), that no existing handle references.
C24_ValueCtorRoundTrip ==
    /\ [][last'.op = "value_ctor" => BuiltAlone(last'.h, last'.v)]_vars
    /\ [](last.op = "value_ctor"
            => /\ Read(St, last.h) = last.v /\ Unique(St, last.h)
               /\ \A g \in UserHandles \ {last.h} :
                     alive[g] => ~Identity(St, last.h, g))

\* a handle has been built from a value that is not the default one while
\* another handle holds a Cell
C24_Witness ==
    /\ last.op = "value_ctor" /\ fault = "ok" /\ last.v # DefaultValue
    /\ Read(St, last.h) = last.v /\ count[self[last.h]] = 1
    /\ \E g \in UserHandles \ {last.h} : alive[g] /\ self[g] # NULL

UseAfterMove == "assert: using a moved copy_on_write object"
Asserts      == {UseAfterMove, "assert: self-assignment is not allowed",
                 "assert: double delete"}

\* the step changes no count, no value, no allocation, and the Cell of no
\* handle the program has
NoCellTouched ==
    /\ count' = count /\ value' = value /\ allocated' = allocated
    /\ \A g \in AllHandles : alive[g] => self'[g] = self[g]

\* the operation of the step is one the header guards with
\* assert(_self ...), and the handle it guards is empty: the source of a
\* copy construction, the handle read(), unique() or write() is called on,
\* either handle of identity()
ChecksEmpty(r) ==
    \/ r.op = "copy_ctor" /\ self[r.x] = NULL
    \/ r.op \in ReadForms \cup {"unique", "write"} /\ self[r.h] = NULL
    \/ r.op = "identity" /\ (self[r.h] = NULL \/ self[r.x] = NULL)

\* C26: in a build with assertions, copy construction from an empty handle,
\* and read(), unique(), identity() and write() on an empty handle, fail the
\* assertion on _self; in either build none of them changes a count, a
\* value, an allocation or the Cell of a handle there was (and without
\* assertions those that go on to dereference _self do not complete).
C26_EmptyUseFailsCheck ==
    [][ChecksEmpty(last')
       => /\ NoCellTouched
          /\ wref' = NULL
          /\ ~ndebug => fault' = UseAfterMove
          /\ ndebug /\ last'.op # "identity" => fault' = "ub: null dereference"]_vars

\* the copy construction from a moved-from handle has failed its assertion
C26_Witness ==
    /\ last.op = "copy_ctor" /\ fault = UseAfterMove /\ ~ndebug
    /\ last.h # last.x /\ alive[last.x] /\ self[last.x] = NULL
    /\ self[last.h] = NULL

\* an operand of the operation of the step is an empty handle (the handle a
\* constructor builds is not an operand)
EmptyOperand(r) ==
    \/ r.op \in {"copy_ctor", "move_ctor"} /\ self[r.x] = NULL
    \/ r.op \in ReadForms \cup {"dtor", "value_assign", "write", "unique"}
         /\ self[r.h] = NULL
    \/ r.op \in {"copy_assign", "move_assign", "swap", "identity"}
         /\ (self[r.h] = NULL \/ self[r.x] = NULL)

\* the operation reads through the empty handle: it is the source of a
\* construction or an assignment, or one of the calls guarded by assert(_self)
ReadsEmpty(r) ==
    \/ r.op \in {"copy_ctor", "move_ctor", "copy_assign", "move_assign"}
         /\ self[r.x] = NULL
    \/ ChecksEmpty(r)

\* C27 as stated: in a build with assertions every operation on an empty
\* handle, other than its destruction and a move assignment to it, is
\* rejected by an assertion.
C27_EmptyAlwaysRejected ==
    [][(~ndebug /\ EmptyOperand(last')
          /\ last'.op # "dtor"
          /\ ~(last'.op = "move_assign" /\ self[last'.x] # NULL))
       => fault' \in Asserts]_vars

\* C27 as amended: in a build with assertions an operation is rejected by
\* an assertion when it reads through an empty handle: copy or move
\* construction from it, copy or move assignment from it, read() and the
\* other accessors, unique(), identity() on either side, write().  The
\* operations that only replace or exchange the empty handle's reference
\* are accepted: its destruction, a move, copy or value assignment to it,
\* and swap.
C27_EmptyRejectedWhenRead ==
    [][(~ndebug /\ EmptyOperand(last'))
       => /\ ReadsEmpty(last') => fault' \in Asserts
          /\ ~ReadsEmpty(last') => fault' = "ok"
          /\ ~ReadsEmpty(last')
               <=> \/ last'.op \in {"dtor", "value_assign", "swap"}
                   \/ last'.op \in {"move_assign", "copy_assign"}
                        /\ self[last'.x] # NULL]_vars

\* in a build with assertions a value has been assigned to a moved-from
\* handle, which holds it now
C27_Witness ==
    /\ last.op = "value_assign" /\ fault = "ok" /\ ~ndebug
    /\ last.pcell = NULL /\ self[last.h] # NULL /\ Read(St, last.h) = last.v

\* C28: in a build with assertions the copy self-assignment a = a is
\* rejected by the assertion before any count, value, allocation or handle's
\* reference is changed.
C28_SelfAssignRejected ==
    [][(~ndebug /\ last'.op = "copy_assign" /\ last'.h = last'.x)
       => /\ fault' = "assert: self-assignment is not allowed"
          /\ self' = self /\ alive' = alive
          /\ count' = count /\ value' = value /\ allocated' = allocated]_vars

\* a = a has been rejected on a handle that shares its Cell with another
C28_Witness ==
    /\ last.op = "copy_assign" /\ last.h = last.x /\ ~ndebug
    /\ fault = "assert: self-assignment is not allowed"
    /\ self[last.h] # NULL /\ last.ppeers # {}
    /\ count[self[last.h]] = last.pcount /\ last.pcount = 2

\* the operations of the claim, when the allocation of the new Cell or the
\* construction, copy or assignment of the wrapped value throws
Throws == {"value_ctor_throws", "value_assign_throws", "write_throws"}

\* C29 as stated: if the allocation of a Cell or the construction, copy or
\* assignment of the wrapped value throws in a value construction, a value
\* assignment (on a unique or a shared handle) or the copy branch of
\* write(), every handle is left as it was: same Cell, same count, same
\* value.
C29_FailureKeepsState ==
    [][last'.op \in Throws
       => /\ fault' = "ok" /\ wref' = NULL
          /\ self' = self /\ alive' = alive
          /\ count' = count /\ allocated' = allocated
          /\ value' = value]_vars

\* C29 as amended: in those operations a failure leaves every handle with
\* the Cell and the count it had, and allocates and frees nothing; the
\* values are as they were too, except in a value assignment on a unique
\* handle, where the value of that handle's Cell is what the failed
\* assignment of T has left.
C29_FailureKeepsHandles ==
    [][last'.op \in Throws
       => LET h == last'.h
              inplace == /\ last'.op = "value_assign_throws"
                         /\ self[h] # NULL /\ count[self[h]] = 1
          IN  /\ fault' = "ok" /\ wref' = NULL
              /\ self' = self /\ alive' = alive
              /\ count' = count /\ allocated' = allocated
              /\ ~inplace => value' = value
              /\ inplace => \A d \in Cells \ {self[h]} : value'[d] = value[d]]_vars

\* the copy branch of write() has thrown on a handle that shares its Cell:
\* the handle and its peer hold the Cell as before
C29_Witness ==
    /\ last.op = "write_throws" /\ fault = "ok" /\ wref = NULL
    /\ last.pcount = 2 /\ last.ppeers # {}
    /\ self[last.h] = last.pcell /\ count[last.pcell] = 2
    /\ value[last.pcell] = last.pval

\* the lifecycle state of handle g: Empty when _self is null, Exclusive
\* when unique() holds, Shared otherwise
LifeState(S, g) ==
    IF ~S.alive[g] THEN "Dead"
    ELSE IF S.self[g] = NULL THEN "Empty"
    ELSE IF IsOne(S.count[S.self[g]]) THEN "Exclusive"
    ELSE "Shared"

\* lifecycle states p before and q after a step: a change from p to q,
\* a change to q and a change from p in which the handle lives on
Goes(p, q, from, to) == p = from /\ q = to
Enters(p, q, to)     == p \notin {"Dead", to} /\ q = to
Leaves(p, q, from)   == p = from /\ q \notin {"Dead", from}

\* the step is operation op with g as its object (*this, or the first
\* argument of swap), as its argument, or as either
OnThis(g, ops) == last'.op \in ops /\ last'.h = g
OnArg(g, ops)  == last'.op \in ops /\ last'.x = g
OnEither(g, ops) == OnThis(g, ops) \/ OnArg(g, ops)

\* g keeps its Cell and a handle other than g drops its reference to
\* that Cell
PeerReleases(g) ==
    /\ self'[g] = self[g]
    /\ \E k \in UserHandles \ {g} :
          /\ alive[k] /\ self[k] = self[g]
          /\ ~alive'[k] \/ self'[k] # self[g]

C35_WriteKeepsValue ==
    [][(last'.op = "write" /\ self[last'.h] # NULL)
       => LET h == last'.h
          IN  /\ fault' = "ok"
              /\ self'[h] # NULL /\ allocated'[self'[h]]
              /\ value'[self'[h]] = value[self[h]]
              /\ wref' = self'[h]]_vars

\* write() has returned on a handle that shared a Cell holding a value
\* other than T{}: the handle has a Cell of its own with that value
C35_Witness ==
    /\ last.op = "write" /\ fault = "ok" /\ wref = self[last.h]
    /\ last.pcount = 2 /\ self[last.h] # last.pcell
    /\ last.pval # DefaultValue
    /\ value[self[last.h]] = last.pval /\ value[last.pcell] = last.pval

\* C36: with assertions disabled, copy self-assignment a = a is a no-op
\* that frees nothing: the temporary copy raises the count before the old
\* reference is released, and afterwards a references the same Cell with
\* the same count and value, and nothing else has changed.
C36_SelfCopyAssignNoOp ==
    [][(last'.op = "copy_assign" /\ last'.h = last'.x /\ ndebug
          /\ self[last'.h] # NULL)
       => /\ fault' = "ok"
          /\ self' = self /\ alive' = alive
          /\ count' = count /\ value' = value /\ allocated' = allocated
          /\ allocated'[self[last'.h]]]_vars

\* a = a has completed in a build without assertions on a handle that is
\* the only holder of its Cell: the Cell is live, with count 1
C36_Witness ==
    /\ last.op = "copy_assign" /\ last.h = last.x /\ ndebug /\ fault = "ok"
    /\ last.pcell # NULL /\ last.pcount = 1
    /\ self[last.h] = last.pcell /\ allocated[last.pcell]
    /\ count[last.pcell] = 1 /\ value[last.pcell] = last.pval

\* C37: self move-assignment a = std::move(a) on a non-empty handle trips
\* no assertion and leaves a non-empty, on the same Cell with the same count
\* and value; no Cell is freed and nothing else changes.
C37_SelfMoveAssignKeeps ==
    [][(last'.op = "move_assign" /\ last'.h = last'.x /\ self[last'.h] # NULL)
       => /\ fault' = "ok"
          /\ self'[last'.h] = self[last'.h] /\ self'[last'.h] # NULL
          /\ self' = self /\ alive' = alive
          /\ count' = count /\ value' = value /\ allocated' = allocated]_vars

\* a = std::move(a) has completed in a build with assertions on a handle
\* that shares its Cell with one other handle
C37_Witness ==
    /\ last.op = "move_assign" /\ last.h = last.x /\ ~ndebug /\ fault = "ok"
    /\ last.pcell # NULL /\ last.pcount = 2 /\ last.ppeers # {}
    /\ self[last.h] = last.pcell /\ allocated[last.pcell]
    /\ count[last.pcell] = 2 /\ value[last.pcell] = last.pval

\* C38: value assignment h = v to an empty (moved-from) handle trips no
\* assertion and revives the handle: afterwards h references a newly
\* allocated Cell with count 1 holding v, and no other Cell's count, value
\* or liveness and no other handle changes.
C38_ValueAssignRevives ==
    [][(last'.op = "value_assign" /\ self[last'.h] = NULL)
       => LET h == last'.h
              c == self'[h]
          IN  /\ fault' = "ok"
              /\ c # NULL /\ ~allocated[c] /\ allocated'[c]
              /\ count'[c] = 1 /\ value'[c] = last'.v
              /\ alive' = alive
              /\ \A g \in AllHandles \ {h} : self'[g] = self[g]
              /\ \A d \in Cells \ {c} :
                    /\ count'[d] = count[d] /\ value'[d] = value[d]
                    /\ allocated'[d] = allocated[d]]_vars

\* in a build with assertions a value other than T{} has been assigned to
\* a moved-from handle while the handle that was moved to holds its Cell
C38_Witness ==
    /\ last.op = "value_assign" /\ last.pcell = NULL /\ ~ndebug /\ fault = "ok"
    /\ last.v # DefaultValue
    /\ self[last.h] # NULL /\ count[self[last.h]] = 1
    /\ value[self[last.h]] = last.v
    /\ \E g \in UserHandles \ {last.h} :
          alive[g] /\ self[g] # NULL /\ self[g] # self[last.h]

(***************************************************************************)
(* Properties of SpecMT.                                                   *)
(***************************************************************************)
\* thread t has completed an operation op and has started no other
Completed(t, op) == pc[t] = "idle" /\ loc[t].op = op

\* C8: under every interleaving of the threads' operations no update of a
\* count is lost and no Cell is used after it was freed: once every
\* operation has completed, the count of each live Cell is the number of
\* handles that reference it, and a Cell is live iff that number is not zero.
C8_NoLostUpdate ==
    /\ fault = "ok"
    /\ AllIdle =>
         \A c \in Cells :
            /\ allocated[c] => count[c] = Cardinality(Refs(c))
            /\ allocated[c] <=> Refs(c) # {}

\* a copy construction and a destruction on handles of one Cell, by two
\* threads, have overlapped and have both completed
C8_Witness ==
    /\ AllIdle /\ fault = "ok"
    /\ \E t, u \in Threads :
         /\ t # u /\ u \in loc[t].conc
         /\ loc[t].op = "copy_ctor" /\ loc[u].op = "dtor"
         /\ loc[t].pcell = loc[u].pcell
         /\ allocated[loc[t].pcell] /\ count[loc[t].pcell] >= 2

\* two calls of write(), by threads t and u, on handles that referenced the
\* same Cell, have overlapped, and both stores through the returned
\* references are complete
WritesOverlapped(t, u) ==
    /\ t # u /\ u \in loc[t].conc
    /\ Completed(t, "write") /\ Completed(u, "write")
    /\ loc[t].pcell = loc[u].pcell

\* C9 as stated: two overlapping calls of write() on handles of one Cell both
\* detach into a new Cell, and neither sees the other's edit.
C9_BothDetach ==
    \A t, u \in Threads :
       WritesOverlapped(t, u)
       => /\ loc[t].branch = "copy" /\ loc[u].branch = "copy"
          /\ self[loc[t].this] # loc[t].pcell /\ self[loc[u].this] # loc[u].pcell
          /\ loc[t].seen = loc[t].pval /\ loc[u].seen = loc[u].pval

\* C9 as amended: after two overlapping calls of write() on handles of one
\* Cell the two handles reference different Cells, each with count 1; at
\* least one of the writers has detached into a new Cell (the other may keep
\* the original one); the reference each call returned showed the value
\* the Cell held when the call was made, and each handle reads the value its
\* own thread stored.
C9_DetachNoSharedEdit ==
    \A t, u \in Threads :
       WritesOverlapped(t, u)
       => /\ fault = "ok"
          /\ self[loc[t].this] # self[loc[u].this]
          /\ count[self[loc[t].this]] = 1 /\ count[self[loc[u].this]] = 1
          /\ loc[t].branch = "copy" \/ loc[u].branch = "copy"
          /\ loc[t].branch = "copy" => self[loc[t].this] # loc[t].pcell
          /\ loc[t].seen = loc[t].pval /\ loc[u].seen = loc[u].pval
          /\ Read(St, loc[t].this) = loc[t].v /\ Read(St, loc[u].this) = loc[u].v

\* two overlapping calls of write() have completed with different edits, one
\* of them in place in the original Cell
C9_Witness ==
    \E t, u \in Threads :
       /\ WritesOverlapped(t, u)
       /\ loc[t].branch = "inplace" /\ loc[u].branch = "copy"
       /\ self[loc[t].this] = loc[t].pcell
       /\ loc[t].v # loc[u].v /\ loc[t].v # loc[t].pval

\* C10: while a thread reads the value of a Cell to build its copy, no other
\* thread stores into that Cell in place (nor do two threads store into one
\* Cell at a time): the reader's handle keeps its count on the Cell, so the
\* count is at least 2 for as long as another thread's handle references it.
C10_NoStoreDuringCopy ==
    \A t \in Threads, c \in Cells :
       /\ Reading(t, c) =>
            /\ allocated[c] /\ count[c] >= 1
            /\ \A u \in Threads \ {t} : ~Writing(u, c)
            /\ (\E h \in MTHandles : Owner(h) # t /\ alive[h] /\ self[h] = c)
                 => count[c] >= 2
       /\ Writing(t, c) =>
            /\ allocated[c]
            /\ \A u \in Threads \ {t} : ~Writing(u, c)

\* a thread is reading a Cell for its copy while another thread, whose handle
\* references the same Cell, is inside write() or a value assignment
C10_Witness ==
    \E t, u \in Threads, c \in Cells :
       /\ t # u /\ Reading(t, c)
       /\ loc[u].op \in {"write", "value_assign"}
       /\ pc[u] \in {"w_unique", "a_new", "w_read"}
       /\ alive[loc[u].this] /\ self[loc[u].this] = c

\* thread t is past the return of write() on its handle
Returned(t) == loc[t].op = "write" /\ pc[t] \in {"w_ret", "m_store", "idle"}

\* C11 as stated: when write() returns on h, under every interleaving with
\* the operations of other threads on other handles, the Cell h references
\* has count 1, and if h was shared when the call was made that Cell is not
\* the one h referenced before.
C11_SharedGetsNewCell ==
    \A t \in Threads :
       Returned(t)
       => LET h == loc[t].this
          IN  /\ fault = "ok" /\ alive[h] /\ self[h] # NULL
              /\ allocated[self[h]] /\ count[self[h]] = 1
              /\ loc[t].pcount > 1 => self[h] # loc[t].pcell

\* C11 as amended: when write() returns on h, under every interleaving with
\* the operations of other threads on other handles, the Cell h references
\* has count 1; if the unique() test of the call found the Cell shared, the
\* Cell h references now was allocated by the call and is not the one h
\* referenced before; if the test found it exclusive, h keeps its Cell,
\* whether or not it was shared when the call was made.
C11_WriteReturnsUnique ==
    /\ [](\A t \in Threads :
            Returned(t)
            => LET h == loc[t].this
               IN  /\ fault = "ok" /\ alive[h] /\ self[h] # NULL
                   /\ allocated[self[h]] /\ count[self[h]] = 1
                   /\ loc[t].branch = "copy" => self[h] # loc[t].pcell
                   /\ loc[t].branch = "inplace" => self[h] = loc[t].pcell)
    /\ [][\A t \in Threads :
            pc[t] = "w_copy" /\ pc'[t] # "w_copy"
            => LET c == self'[loc[t].this]
               IN  c # NULL /\ ~allocated[c] /\ allocated'[c] /\ count'[c] = 1]_vars

\* write() has returned on a handle that was shared when the call was made
\* and when the call tested it, after overlapping another thread's operation
\* on the same Cell
C11_Witness ==
    \E t \in Threads :
       /\ loc[t].op = "write" /\ pc[t] = "m_store" /\ fault = "ok"
       /\ loc[t].pcount > 1 /\ loc[t].branch = "copy" /\ loc[t].conc # {}
       /\ self[loc[t].this] # loc[t].pcell /\ count[self[loc[t].this]] = 1


\* thread t's fetch_sub on Cell c has returned 1 and its delete of c is
\* still to come
Deleting(t, c) == pc[t] = "rel_del" /\ self[loc[t].rel] = c

\* thread t is about to take one count from Cell c
Releasing(t, c) == pc[t] = "rel_sub" /\ self[loc[t].rel] = c

\* C32: when several threads release distinct handles of one Cell at the
\* same time, by destruction, by value assignment or by detaching in
\* write(), exactly one thread deallocates the Cell: the one whose
\* fetch_sub takes the count from 1 to 0.  It deletes the Cell once, and
\* only when every other thread's decrement of that Cell has taken place:
\* no other handle references the Cell and no other release of it is
\* pending.  A Cell whose holders have all released it is deleted.
C32_LastDecrementDeletes ==
    /\ [](fault = "ok")
    /\ [](\A c \in Cells :
            /\ Cardinality({t \in Threads : Deleting(t, c)}) <= 1
            /\ \A t \in Threads : Deleting(t, c) =>
                  /\ allocated[c] /\ count[c] = 0
                  /\ Refs(c) = {loc[t].rel}
                  /\ \A u \in Threads : ~Releasing(u, c))
    /\ [](AllIdle => \A c \in Cells : Refs(c) = {} => ~allocated[c])
    /\ [][\A c \in Cells :
            /\ \A t \in Threads :
                  (~Deleting(t, c) /\ Deleting(t, c)')
                     => Releasing(t, c) /\ count[c] = 1 /\ count'[c] = 0
            /\ \A t \in Threads :
                  (Releasing(t, c) /\ count[c] = 1) => Deleting(t, c)'
                                                       \/ pc'[t] = pc[t]
            /\ (allocated[c] /\ ~allocated'[c])
                  => \E t \in Threads : Deleting(t, c) /\ pc'[t] # "rel_del"]_vars

\* two threads have destroyed their handles of one Cell, their destructors
\* overlapping, and the Cell is freed
C32_Witness ==
    /\ AllIdle /\ fault = "ok"
    /\ \E t, u \in Threads :
         /\ t # u /\ u \in loc[t].conc
         /\ loc[t].op = "dtor" /\ loc[u].op = "dtor"
         /\ loc[t].pcell = loc[u].pcell /\ loc[t].pcell # NULL
         /\ ~allocated[loc[t].pcell] /\ Refs(loc[t].pcell) = {}

\* threads t and u have each called write() on a handle of one Cell of
\* which their two handles were the only holders, the calls overlapping
TwoWriters(t, u) ==
    /\ t # u /\ u \in loc[t].conc
    /\ loc[t].op = "write" /\ loc[u].op = "write"
    /\ loc[t].pcell = loc[u].pcell
    /\ loc[t].pcount = 2 /\ loc[u].pcount = 2

\* thread u has taken its count from the Cell its write() started on
HasReleased(u) ==
    /\ loc[u].branch = "copy" /\ pc[u] \in {"rel_del", "w_ret", "m_store", "idle"}
    /\ self[loc[u].this] # loc[u].pcell

\* C33: under every interleaving of two concurrent calls of write() by two
\* handles that are the only holders of one Cell, on completion the two
\* handles reference distinct Cells, each with count 1; the original Cell
\* is freed iff both writers took the copy branch, and otherwise it is kept
\* by exactly one writer, which took the in-place branch only after the
\* other writer had released its count.
C33_TwoWritersSplit ==
    /\ [](\A t, u \in Threads :
            (TwoWriters(t, u) /\ Completed(t, "write") /\ Completed(u, "write"))
            => LET ht == loc[t].this
                   hu == loc[u].this
                   c  == loc[t].pcell
               IN  /\ fault = "ok"
                   /\ self[ht] # NULL /\ self[hu] # NULL /\ self[ht] # self[hu]
                   /\ allocated[self[ht]] /\ allocated[self[hu]]
                   /\ count[self[ht]] = 1 /\ count[self[hu]] = 1
                   /\ ~allocated[c]
                        <=> loc[t].branch = "copy" /\ loc[u].branch = "copy"
                   /\ allocated[c] =>
                        /\ Cardinality({w \in {t, u} : self[loc[w].this] = c}) = 1
                        /\ \A w \in {t, u} :
                              self[loc[w].this] = c <=> loc[w].branch = "inplace")
    /\ [][\A t, u \in Threads :
            (TwoWriters(t, u) /\ pc[t] = "w_unique"
               /\ loc'[t].branch = "inplace")
            => HasReleased(u) /\ count[loc[t].pcell] = 1]_vars

\* two overlapping calls of write() by the only two holders of a Cell have
\* completed, both through the copy branch, and the original Cell is freed
C33_Witness ==
    \E t, u \in Threads :
       /\ TwoWriters(t, u) /\ Completed(t, "write") /\ Completed(u, "write")
       /\ fault = "ok"
       /\ loc[t].branch = "copy" /\ loc[u].branch = "copy"
       /\ ~allocated[loc[t].pcell]
       /\ self[loc[t].this] # self[loc[u].this]

(***************************************************************************)
(* Properties of SpecCmp.                                                  *)
(***************************************************************************)
\* C21: for non-empty handles a and b, a.identity(b) implies a == b, and
\* implies neither a < b nor b < a (a and b range over every pair, in both
\* orders); handles of different Cells may be equal too.
C21_IdentityImpliesEqual ==
    (last.form = "hh" /\ fault = "ok" /\ Identity(St, last.h, last.x))
    => /\ last.op = "eq" => last.ret
       /\ last.op = "lt" => ~last.ret
       /\ EqHH(St, last.h, last.x)
       /\ ~LtHH(St, last.h, last.x) /\ ~LtHH(St, last.x, last.h)

\* two different handles of one Cell have been compared with ==, which
\* returned true
C21_Witness ==
    /\ last.form = "hh" /\ last.op = "eq" /\ fault = "ok"
    /\ last.h # last.x /\ Identity(St, last.h, last.x) /\ last.ret

\* the values on the left and on the right of the comparison made last
LeftValue  == IF last.form = "vh" THEN last.v ELSE Read(St, last.h)
RightValue == IF last.form = "hh" THEN Read(St, last.x)
              ELSE IF last.form = "hv" THEN last.v ELSE Read(St, last.h)

\* C22: each of ==, !=, <, <=, >, >= applied to (handle, handle),
\* (handle, value) or (value, handle) returns what the same operator of T
\* returns on the underlying values, whether the handles share a Cell or not.
C22_CompareAsValues ==
    (last.form \in {"hh", "hv", "vh"} /\ fault = "ok")
    => last.ret = CmpT(last.op, LeftValue, RightValue)

\* two handles of different Cells holding different values have been
\* compared with >, which returned true
C22_Witness ==
    /\ last.form = "hh" /\ last.op = "gt" /\ fault = "ok"
    /\ ~Identity(St, last.h, last.x) /\ last.ret
    /\ Read(St, last.h) > Read(St, last.x)

\* C23: for non-empty handles a and b exactly one of a < b, a == b, b < a
\* holds, and it is the one that holds of a.read() and b.read() in the
\* order of T.
C23_Trichotomy ==
    fault = "ok"
    => /\ \A a, b \in UserHandles :
            LET lt == LtHH(St, a, b)
                eq == EqHH(St, a, b)
                gt == LtHH(St, b, a)
            IN  /\ Cardinality({r \in {"lt", "eq", "gt"} :
                                  \/ r = "lt" /\ lt
                                  \/ r = "eq" /\ eq
                                  \/ r = "gt" /\ gt}) = 1
                /\ lt <=> Read(St, a) < Read(St, b)
                /\ eq <=> Read(St, a) = Read(St, b)
                /\ gt <=> Read(St, b) < Read(St, a)
       /\ last.form = "hh" /\ last.op = "lt"
            => (last.ret <=> Read(St, last.h) < Read(St, last.x))
       /\ last.form = "hh" /\ last.op = "eq"
            => (last.ret <=> Read(St, last.h) = Read(St, last.x))

\* a < b has been evaluated on handles of which the first holds the smaller
\* value: it returned true, and a == b and b < a are false
C23_Witness ==
    /\ last.form = "hh" /\ last.op = "lt" /\ fault = "ok" /\ last.ret
    /\ ~EqHH(St, last.h, last.x) /\ ~LtHH(St, last.x, last.h)

(***************************************************************************)
(* Properties of SpecSeq.                                                  *)
(***************************************************************************)
\* every handle of the sequence has called write() and holds no reference
\* that write() returned
SeqDone == seq.written = seq.holders /\ wref = NULL

\* C34: if n >= 1 handles share one Cell and each calls write() once, one
\* after another, exactly n - 1 new Cells are allocated in all: each write
\* on a handle that still shares creates exactly one new Cell, of which the
\* handle is the only holder, and the last holder left writes into the
\* original Cell in place.
C34_OneCellPerSharedWrite ==
    /\ [](fault = "ok")
    /\ [](SeqDone =>
            /\ seq.made = Cardinality(seq.holders) - 1
            /\ Cardinality({c \in Cells : allocated[c]}) = Cardinality(seq.holders)
            /\ allocated[seq.cell] /\ count[seq.cell] = 1
            /\ \A h \in seq.holders : count[self[h]] = 1
            /\ \A h, g \in seq.holders : h # g => self[h] # self[g])
    /\ [][last'.op = "write" =>
            LET h == last'.h
            IN  IF count[self[h]] > 1
                THEN /\ Cardinality(Made) = 1
                     /\ self'[h] \in Made /\ count'[self'[h]] = 1
                     /\ count'[self[h]] = count[self[h]] - 1
                ELSE /\ Made = {}
                     /\ self'[h] = seq.cell /\ self[h] = seq.cell
                     /\ seq'.written = seq.holders
                     /\ wref' = seq.cell]_vars

\* all of two or more handles have written, and the last of them has stored
\* a value into the original Cell
C34_Witness ==
    /\ SeqDone /\ fault = "ok" /\ Cardinality(seq.holders) >= 2
    /\ seq.made = Cardinality(seq.holders) - 1
    /\ last.op = "mutate" /\ self[last.h] = seq.cell
    /\ value[seq.cell] = last.v /\ last.v # last.pval

(***************************************************************************)
(* Properties of SpecDual.                                                 *)
(***************************************************************************)
\* C31: the dual-path write runs inPlaceTransform on the existing value
\* when the handle is unique; when it is shared it runs copyTransform on
\* the current value and installs the result as a new exclusive Cell,
\* leaving the shared Cell to its other holders; and for transforms that
\* express the same edit the state it leaves is the state that write()
\* followed by that edit leaves.
C31_DualWriteAsSimpleWrite ==
    [][(last'.op = "write_transform" /\ self[last'.h] # NULL)
       => LET h == last'.h
              c == self[h]
              d == self'[h]
          IN  /\ fault' = "ok"
              /\ alive' = alive
              /\ \A g \in AllHandles \ {h} : self'[g] = self[g]
              /\ count[c] = 1 =>
                    /\ d = c /\ value'[c] = last'.u
                    /\ count' = count /\ allocated' = allocated
                    /\ \A e \in Cells \ {c} : value'[e] = value[e]
              /\ count[c] > 1 =>
                    /\ d # c /\ ~allocated[d] /\ allocated'[d]
                    /\ count'[d] = 1 /\ value'[d] = last'.v
                    /\ count'[c] = count[c] - 1 /\ value'[c] = value[c]
                    /\ allocated'[c]
                    /\ \A e \in Cells \ {c, d} :
                          /\ count'[e] = count[e] /\ value'[e] = value[e]
                          /\ allocated'[e] = allocated[e]
              /\ last'.v = last'.u =>
                    StNext = WriteThenStore(St, MainThread, h, d, last'.v)]_vars

\* the dual-path write has run, with transforms of one edit that changes
\* the value, on a handle that shared its Cell: the handle has a Cell of
\* its own with the edited value, the other holder has the old value
C31_Witness ==
    /\ last.op = "write_transform" /\ fault = "ok"
    /\ last.v = last.u /\ last.v # last.pval
    /\ last.pcount = 2 /\ last.ppeers # {}
    /\ self[last.h] # last.pcell /\ count[self[last.h]] = 1
    /\ value[self[last.h]] = last.v
    /\ count[last.pcell] = 1 /\ value[last.pcell] = last.pval

=============================================================================
